---------------------------- MODULE Spec2Model ----------------------------
(***************************************************************************)
(* A model of "My Project/For5images.py": dark-channel-prior dehazing of   *)
(* a batch of foggy images, followed by contrast enhancement and two       *)
(* quality metrics.                                                        *)
(*                                                                         *)
(* Floating-point values are modelled as extended rationals <<n, d>> with  *)
(* d >= 0: d > 0 is the rational n/d in lowest terms, <<1, 0>> is +inf,    *)
(* <<-1, 0>> is -inf and <<0, 0>> is NaN, so that x/0 and 0/0 come out as  *)
(* IEEE arithmetic (numpy's default error state: a warning, no exception)  *)
(* produces them.  Rounding is not modelled.                               *)
(***************************************************************************)
EXTENDS Integers, Sequences, FiniteSets, TLC

VARIABLES
    \* the build: choices the code leaves to numpy / OpenCV
    tieOrder,        \* order argsort gives to equal keys: "stable" | "reverse"
    erodeNaN,        \* what cv2.erode's min does with NaN: "propagate" | "skip"
    \* the batch script (module level, lines 59-147)
    foggy_dir,       \* the directory: sequence of file contents, by name 1..N
    image_files,     \* line 66
    i,               \* position of the for loop in image_files (0-based)
    pc,              \* where the running script or function is
    skipped,         \* the "Skipped: ..." lines printed, line 71
    entropy_before, entropy_after, cii_before, cii_after,   \* lines 63-64
    output_dir,      \* files written by cv2.imwrite, line 105
    \* the variables of one image's processing (lines 69-97)
    img,             \* line 69; also the argument of adaptive_gamma_correction
    img_float, window_size, dark, indices, A, transmission, dcp_result,
    final_uint8,
    \* adaptive_gamma_correction called on its own
    gamma, avg, gamma_used, corrected,
    \* the scene radiance a synthetic hazy image is built from
    J

vars == <<tieOrder, erodeNaN, foggy_dir, image_files, i, pc, skipped,
          entropy_before, entropy_after, cii_before, cii_after, output_dir,
          img, img_float, window_size, dark, indices, A, transmission,
          dcp_result, final_uint8, gamma, avg, gamma_used, corrected, J>>

-----------------------------------------------------------------------------
(* Bounds of the model *)

\* most pixels of a freely drawn image
MaxPixels == 3
\* a large image has 1000*k + e pixels, e in 0..MaxBigExtra
MaxBigExtra == 1
\* most files in the directory
MaxFiles == 6
\* the tone corrector's inputs take the uint8 values 255*k \div MaxLevel
MaxLevel == 5
\* the synthetic scenes of the recovery round trip take the values k/MaxShade
MaxShade == 2

-----------------------------------------------------------------------------
(* Extended rational arithmetic *)

Abs(n) == IF n < 0 THEN -n ELSE n

Sgn(n) == IF n > 0 THEN 1 ELSE IF n < 0 THEN -1 ELSE 0

Max(a, b) == IF a >= b THEN a ELSE b

Min(a, b) == IF a <= b THEN a ELSE b

RECURSIVE GCD(_, _)
GCD(a, b) == IF b = 0 THEN a ELSE GCD(b, a % b)

Norm(n, d) ==
    IF d = 0 THEN <<Sgn(n), 0>>
    ELSE IF d < 0 THEN LET g == GCD(Abs(n), -d) IN <<(-n) \div g, (-d) \div g>>
    ELSE LET g == GCD(Abs(n), d) IN <<n \div g, d \div g>>

NaN == <<0, 0>>
PosInf == <<1, 0>>
NegInf == <<-1, 0>>
Zero == <<0, 1>>
One == <<1, 1>>

IsNaN(x) == x = NaN
IsInf(x) == x[2] = 0 /\ x[1] # 0
IsFinite(x) == x[2] > 0

\* every comparison with NaN is false
FLt(x, y) ==
    /\ ~IsNaN(x) /\ ~IsNaN(y)
    /\ IF IsInf(x) \/ IsInf(y)
       THEN (x = NegInf /\ y # NegInf) \/ (y = PosInf /\ x # PosInf)
       ELSE x[1] * y[2] < y[1] * x[2]

FLe(x, y) == ~IsNaN(x) /\ ~IsNaN(y) /\ ~FLt(y, x)

FAdd(x, y) ==
    IF x[2] = 0 /\ y[2] = 0
    THEN (IF x = y THEN x ELSE NaN)
    ELSE Norm(x[1] * y[2] + y[1] * x[2], x[2] * y[2])

FNeg(x) == <<-x[1], x[2]>>

FSub(x, y) == FAdd(x, FNeg(y))

FMul(x, y) == Norm(x[1] * y[1], x[2] * y[2])

FDiv(x, y) == Norm(x[1] * y[2], x[2] * y[1])

\* int(x) of a finite x: truncation toward zero
FTrunc(x) == IF x[1] >= 0 THEN x[1] \div x[2] ELSE -((-x[1]) \div x[2])

\* the least and the greatest element of a NaN-free set
FMinSet(S) == CHOOSE x \in S : \A y \in S : FLe(x, y)
FMaxSet(S) == CHOOSE x \in S : \A y \in S : FLe(y, x)

\* np.min / np.max over an axis: a NaN among the values is the result
NpMin(S) == IF NaN \in S THEN NaN ELSE FMinSet(S)
NpMax(S) == IF NaN \in S THEN NaN ELSE FMaxSet(S)

\* np.clip(x, lo, hi) == minimum(maximum(x, lo), hi); NaN stays NaN
NpClip(x, lo, hi) ==
    IF IsNaN(x) THEN NaN
    ELSE IF FLt(x, lo) THEN lo
    ELSE IF FLt(hi, x) THEN hi
    ELSE x

-----------------------------------------------------------------------------
(* Images: [h, w, px] with px the h*w pixels in row-major order (the order *)
(* of ravel and reshape).  A pixel of a colour image is a triple, a pixel *)
(* of a single-channel map one value.                                      *)

Image(h, w, px) == [h |-> h, w |-> w, px |-> px]

NPixels(im) == im.h * im.w

\* skimage.img_as_float of a uint8 image: v / 255
img_as_float(im) ==
    Image(im.h, im.w,
          [p \in 1..NPixels(im) |->
               [c \in 1..3 |-> Norm(im.px[p][c], 255)]])

-----------------------------------------------------------------------------
(* dark_channel, lines 9-13 *)

\* cv2.erode with a window_size x window_size rectangle anchored at its
\* centre (window_size \div 2).  Positions outside the image hold the
\* default border value, DBL_MAX, which only matters when every value of the
\* window inside the image is NaN; it is written PosInf here, the arithmetic
\* that follows (1 - omega * x, clipped) treating the two alike.  A min that
\* meets NaN keeps it or drops it depending on operand order (erodeNaN).
ErodeAt(m, ws, p) ==
    LET r == ((p - 1) \div m.w) + 1
        c == ((p - 1) % m.w) + 1
        a == ws \div 2
        rows == Max(1, r - a) .. Min(m.h, r - a + ws - 1)
        cols == Max(1, c - a) .. Min(m.w, c - a + ws - 1)
        vals == {m.px[(rr - 1) * m.w + cc] : rr \in rows, cc \in cols}
        border == \/ r - a < 1 \/ r - a + ws - 1 > m.h
                  \/ c - a < 1 \/ c - a + ws - 1 > m.w
        rest == vals \ {NaN}
    IN  IF NaN \notin vals THEN FMinSet(vals)
        ELSE IF erodeNaN = "propagate" THEN NaN
        ELSE IF rest # {} THEN FMinSet(rest)
        ELSE IF border THEN PosInf
        ELSE NaN

erode(m, ws) ==
    Image(m.h, m.w, [p \in 1..NPixels(m) |-> ErodeAt(m, ws, p)])

\* a slip: the brightest channel in place of the darkest
dark_channel_MaxChannel(im, ws) ==
    LET max_channel ==
            Image(im.h, im.w,
                  [p \in 1..NPixels(im) |->
                       NpMax({im.px[p][c] : c \in 1..3})])
    IN  erode(max_channel, ws)

dark_channel(im, ws) ==
    LET min_channel ==
            Image(im.h, im.w,
                  [p \in 1..NPixels(im) |->
                       NpMin({im.px[p][c] : c \in 1..3})])
    IN  erode(min_channel, ws)

-----------------------------------------------------------------------------
(* estimate_atmospheric_light, lines 15-26 *)

\* flat_dark.argsort(): the indices in ascending order of value.  numpy's
\* default sort is not stable: equal keys come out in an order the build
\* fixes (tieOrder).
argsort(flat) ==
    LET n == Len(flat)
    IN  SortSeq([p \in 1..n |-> IF tieOrder = "stable" THEN p ELSE n + 1 - p],
                LAMBDA a, b :
                    \/ FLt(flat[a], flat[b])
                    \/ /\ flat[a] = flat[b]
                       /\ IF tieOrder = "stable" THEN a < b ELSE a > b)

\* line 18: int(max(n_pixels * 0.001, 1))
NBrightest(n_pixels) ==
    LET x == FMul(<<n_pixels, 1>>, <<1, 1000>>)
    IN  FTrunc(IF FLt(x, One) THEN One ELSE x)

\* a slip: argsort()[:n_brightest], the darkest pixels
BrightestIndices_Head(dk) ==
    LET n_pixels == dk.h * dk.w
    IN  SubSeq(argsort(dk.px), 1, NBrightest(n_pixels))

\* line 23: flat_dark.argsort()[-n_brightest:]
BrightestIndices(dk) ==
    LET n_pixels == dk.h * dk.w
        n_brightest == NBrightest(n_pixels)
        order == argsort(dk.px)
    IN  SubSeq(order, Max(1, n_pixels - n_brightest + 1), n_pixels)

\* lines 24-25: the per-channel maximum over the selected pixels
MaxOverIndices(im, idx) ==
    [c \in 1..3 |-> NpMax({im.px[idx[k]][c] : k \in 1..Len(idx)})]

estimate_atmospheric_light(im, dk) ==
    MaxOverIndices(im, BrightestIndices(dk))

-----------------------------------------------------------------------------
(* estimate_transmission, lines 28-31 *)

omega == <<19, 20>>

Tenth == <<1, 10>>

\* line 29: img / A, A broadcast over the pixels
normed_image(im, al) ==
    Image(im.h, im.w,
          [p \in 1..NPixels(im) |->
               [c \in 1..3 |-> FDiv(im.px[p][c], al[c])]])

estimate_transmission(im, al, om, ws) ==
    LET dk == dark_channel(normed_image(im, al), ws)
    IN  Image(im.h, im.w,
              [p \in 1..NPixels(im) |->
                   NpClip(FSub(One, FMul(om, dk.px[p])), Tenth, One)])

-----------------------------------------------------------------------------
(* recover_image, lines 33-37.  The result array is float32; the rounding  *)
(* of that store (relative error 2^-24) is not modelled.                   *)

\* a slip: the haze model applied again in place of its inverse
recover_image_Times(im, al, t) ==
    Image(im.h, im.w,
          [p \in 1..NPixels(im) |->
               [c \in 1..3 |->
                    NpClip(FAdd(FMul(FSub(im.px[p][c], al[c]), t.px[p]), al[c]),
                           Zero, One)]])

recover_image(im, al, t) ==
    Image(im.h, im.w,
          [p \in 1..NPixels(im) |->
               [c \in 1..3 |->
                    NpClip(FAdd(FDiv(FSub(im.px[p][c], al[c]), t.px[p]), al[c]),
                           Zero, One)]])

-----------------------------------------------------------------------------
(* Library stages whose arithmetic is not modelled (OpenCV's colour         *)
(* conversions, CLAHE and filters, skimage's entropy): deterministic        *)
(* functions of their arguments, kept as terms.                             *)

Lib(f, args) == [op |-> f, args |-> args]

IsLib(x) == "op" \in DOMAIN x

\* apply_clahe_color, lines 39-45
apply_clahe_color(im) ==
    LET lab == Lib("cvtColor(RGB2LAB)", <<im>>)
        l == Lib("split[0]", <<lab>>)
        a == Lib("split[1]", <<lab>>)
        b == Lib("split[2]", <<lab>>)
        l_clahe == Lib("CLAHE(2.0, (8, 8)).apply", <<l>>)
        lab_clahe == Lib("merge", <<l_clahe, a, b>>)
    IN  Lib("cvtColor(LAB2RGB)", <<lab_clahe>>)

-----------------------------------------------------------------------------
(* adaptive_gamma_correction, lines 47-53 *)

\* Python's None
PyNone == <<>>

RECURSIVE FSum(_)
FSum(seq) == IF seq = <<>> THEN Zero ELSE FAdd(Head(seq), FSum(Tail(seq)))

\* np.mean over every value of a colour image
NpMean(im) ==
    FDiv(FSum([k \in 1..(3 * NPixels(im)) |->
                   im.px[((k - 1) \div 3) + 1][((k - 1) % 3) + 1]]),
         <<3 * NPixels(im), 1>>)

\* line 51
select_gamma(a) ==
    IF FLt(<<2, 5>>, a) /\ FLt(a, <<3, 5>>) THEN One
    ELSE IF FLt(<<3, 5>>, a) THEN <<4, 5>>
    ELSE <<6, 5>>

\* np.power(x, g), kept as the pair it is computed from: the value is
\* irrational in general.  For 0 <= x <= 1 and g >= 0 it lies in [0, 1], where
\* the clip of line 53 changes nothing.
NpPower(x, g) == [base |-> x, exp |-> g]

\* the result with the locals of interest: the mean (when it is
\* computed) and the exponent applied.  Of the output of a library stage the
\* mean, and with it the exponent and the result, are known only as terms.
adaptive_gamma_correction(im, g) ==
    IF IsLib(im)
    THEN LET a == IF g = PyNone THEN Lib("np.mean", <<im>>) ELSE Lib("unset", <<>>)
             used == IF g = PyNone THEN Lib("select_gamma", <<a>>)
                     ELSE Lib("gamma", <<g>>)
         IN  [avg |-> a, gamma |-> used,
              out |-> Lib("clip(np.power)", <<im, used>>)]
    ELSE LET imf == img_as_float(im)
             a == IF g = PyNone THEN NpMean(imf) ELSE NaN
             used == IF g = PyNone THEN select_gamma(a) ELSE g
         IN  [avg |-> a, gamma |-> used,
              out |-> Image(imf.h, imf.w,
                            [p \in 1..NPixels(imf) |->
                                 [c \in 1..3 |-> NpPower(imf.px[p][c], used)]])]

-----------------------------------------------------------------------------
(* The quality metrics, lines 55-57 and 91-97 *)

\* skimage.color.rgb2gray: 0.2125 R + 0.7154 G + 0.0721 B of the float image
rgb2gray(im) ==
    IF IsLib(im) THEN Lib("rgb2gray", <<im>>)
    ELSE LET imf == img_as_float(im)
         IN  Image(im.h, im.w,
                   [p \in 1..NPixels(im) |->
                        FAdd(FAdd(FMul(<<2125, 10000>>, imf.px[p][1]),
                                  FMul(<<7154, 10000>>, imf.px[p][2])),
                             FMul(<<721, 10000>>, imf.px[p][3]))])

shannon_entropy(im) == Lib("shannon_entropy", <<im>>)

\* float values of the metrics
StdZero == Lib("0.0", <<>>)
FloatOne == Lib("1.0", <<>>)
PyInf == Lib("float('inf')", <<>>)

\* np.std: 0 exactly when all values are equal, otherwise a positive value
\* that is a function of the array
NpStd(x) ==
    IF IsLib(x) THEN Lib("np.std", <<x>>)
    ELSE IF \A p \in 1..NPixels(x) : x.px[p] = x.px[1] THEN StdZero
    ELSE Lib("np.std", <<x>>)

\* x / y of two numpy floats, x >= 0 and y >= 0: dividing by 0.0 gives inf or
\* NaN with a RuntimeWarning; a positive finite value divided by itself is 1.0
FloatDivide(x, y) ==
    IF y = StdZero THEN Lib("divide by zero", <<x>>)
    ELSE IF x = y THEN FloatOne
    ELSE IF x = StdZero THEN StdZero
    ELSE Lib("divide", <<x, y>>)

\* a slip: the guard dropped
contrast_improvement_index_Unguarded(original, enhanced) ==
    FloatDivide(NpStd(enhanced), NpStd(original))

contrast_improvement_index(original, enhanced) ==
    LET std_original == NpStd(original)
    IN  IF std_original # StdZero
        THEN FloatDivide(NpStd(enhanced), std_original)
        ELSE PyInf

-----------------------------------------------------------------------------
(* The dehazing stages applied to one image, in the order of lines 77-80 *)

NoImage == Image(0, 0, <<>>)

\* uint8 colours (R, G, B) the drawn images are made of
Palette == { <<0, 0, 0>>, <<255, 255, 255>>, <<204, 153, 102>>, <<102, 153, 0>> }

Shapes == { s \in (1..MaxPixels) \X (1..MaxPixels) : s[1] * s[2] <= MaxPixels }

SmallImages ==
    UNION { { Image(s[1], s[2], px) : px \in [1..(s[1] * s[2]) -> Palette] }
            : s \in Shapes }

\* large images: one row of a background colour with one pixel of another
BigSizes == { 1000 * k + e : k \in 1..2, e \in 0..MaxBigExtra }

BigPalette == { <<204, 153, 102>>, <<102, 153, 0>> }

BigImages ==
    { Image(1, n, [p \in 1..n |-> IF p = pos THEN spot ELSE bg]) :
          n \in BigSizes, bg \in BigPalette, spot \in BigPalette,
          pos \in {1} }

\* line 9: window_size=15
default_window_size == 15

\* images as large as the default window, of one colour
SquareImages ==
    { Image(default_window_size, default_window_size,
            [p \in 1..(default_window_size * default_window_size) |-> col]) :
          col \in BigPalette }

WindowSizes == {1, 3, default_window_size}

InitBuild ==
    /\ tieOrder \in {"stable", "reverse"}
    /\ erodeNaN \in {"propagate", "skip"}

InitDCP ==
    /\ InitBuild
    /\ \/ /\ img_float \in { img_as_float(u) : u \in SmallImages }
          /\ window_size \in WindowSizes
       \/ /\ img_float \in { img_as_float(u) : u \in BigImages \cup SquareImages }
          /\ window_size = default_window_size
    /\ pc = "l77"
    /\ foggy_dir = <<>> /\ image_files = <<>> /\ i = 0 /\ skipped = <<>>
    /\ entropy_before = <<>> /\ entropy_after = <<>>
    /\ cii_before = <<>> /\ cii_after = <<>>
    /\ output_dir = <<>>
    /\ dark = NoImage /\ indices = <<>> /\ A = <<>>
    /\ transmission = NoImage /\ dcp_result = NoImage /\ final_uint8 = NoImage
    /\ img = NoImage
    /\ gamma = NaN /\ avg = NaN /\ gamma_used = NaN /\ corrected = NoImage
    /\ J = NoImage

UnchangedBuild == UNCHANGED <<tieOrder, erodeNaN>>

UnchangedBatch ==
    UNCHANGED <<foggy_dir, image_files, i, skipped, entropy_before,
                entropy_after, cii_before, cii_after, output_dir>>

UnchangedGamma == UNCHANGED <<img, gamma, avg, gamma_used, corrected>>

\* line 77
DarkChannel ==
    /\ pc = "l77"
    /\ dark' = dark_channel(img_float, window_size)
    /\ pc' = "l78"
    /\ UNCHANGED <<img_float, window_size, indices, A, transmission,
                   dcp_result, final_uint8, J>>
    /\ UnchangedBuild /\ UnchangedBatch /\ UnchangedGamma

\* line 78
EstimateAtmosphericLight ==
    /\ pc = "l78"
    /\ LET idx == BrightestIndices(dark)
       IN  /\ indices' = idx
           /\ A' = MaxOverIndices(img_float, idx)
    /\ pc' = "l79"
    /\ UNCHANGED <<img_float, window_size, dark, transmission, dcp_result,
                   final_uint8, J>>
    /\ UnchangedBuild /\ UnchangedBatch /\ UnchangedGamma

\* line 79
EstimateTransmission ==
    /\ pc = "l79"
    /\ transmission' = estimate_transmission(img_float, A, omega, window_size)
    /\ pc' = "l80"
    /\ UNCHANGED <<img_float, window_size, dark, indices, A, dcp_result,
                   final_uint8, J>>
    /\ UnchangedBuild /\ UnchangedBatch /\ UnchangedGamma

\* line 80
RecoverImage ==
    /\ pc = "l80"
    /\ dcp_result' = recover_image(img_float, A, transmission)
    /\ pc' = "l82"
    /\ UNCHANGED <<img_float, window_size, dark, indices, A, transmission,
                   final_uint8, J>>
    /\ UnchangedBuild /\ UnchangedBatch /\ UnchangedGamma

NextDCP ==
    \/ DarkChannel
    \/ EstimateAtmosphericLight
    \/ EstimateTransmission
    \/ RecoverImage

SpecDCP == InitDCP /\ [][NextDCP]_vars

-----------------------------------------------------------------------------
(* Properties of the dehazing stages (SpecDCP) *)

AfterLight == pc \in {"l79", "l80", "l82"}
AfterTransmission == pc \in {"l80", "l82"}

Selected == { indices[k] : k \in 1..Len(indices) }

HasZeroLight == \E c \in 1..3 : A[c] = Zero

\* C1: every value of the transmission map lies in [0.1, 1.0], whatever
\* atmospheric light estimate_atmospheric_light returned, a zero component
\* included.
C1_TransmissionInRange ==
    AfterTransmission =>
        \A p \in 1..NPixels(transmission) :
            /\ FLe(Tenth, transmission.px[p])
            /\ FLe(transmission.px[p], One)

\* C3: a zero component of the atmospheric light is floored before the
\* division of line 29, so that the normalised image and the transmission
\* map hold no NaN and no infinity.
C3_ZeroLightIsFloored ==
    (AfterTransmission /\ HasZeroLight) =>
        /\ \A p \in 1..NPixels(img_float) : \A c \in 1..3 :
               IsFinite(normed_image(img_float, A).px[p][c])
        /\ \A p \in 1..NPixels(transmission) : IsFinite(transmission.px[p])

CeilDiv(a, b) == (a + b - 1) \div b

SelectionIsTopOfDark ==
    /\ Cardinality(Selected) = Len(indices)
    /\ Selected \subseteq 1..NPixels(dark)
    /\ \A q \in Selected : \A p \in (1..NPixels(dark)) \ Selected :
           ~FLt(dark.px[q], dark.px[p])

LightIsMaxOverSelected ==
    \A c \in 1..3 :
        /\ \E q \in Selected : A[c] = img_float.px[q][c]
        /\ \A q \in Selected : FLe(img_float.px[q][c], A[c])

\* C4 as stated: exactly ceil(0.001 * n) pixels are selected, they are the
\* ones with the largest dark-channel values, and the light is the
\* per-channel maximum of the image over them.
C4_SelectsCeilOfPermille ==
    AfterLight =>
        /\ Len(indices) = CeilDiv(NPixels(dark), 1000)
        /\ SelectionIsTopOfDark
        /\ LightIsMaxOverSelected

\* C4 amended: exactly max(1, floor(0.001 * n)) pixels are selected, they
\* are ones with the largest dark-channel values, and the light is the
\* per-channel maximum of the image over them.
C4_SelectsFloorOfPermille ==
    AfterLight =>
        /\ Len(indices) = Max(1, NPixels(dark) \div 1000)
        /\ SelectionIsTopOfDark
        /\ LightIsMaxOverSelected

C4_Witness ==
    /\ pc = "l79"
    /\ Len(indices) = 2
    /\ \E q \in Selected : \E p \in (1..NPixels(dark)) \ Selected :
           FLt(dark.px[p], dark.px[q])

\* C5: every component of the atmospheric light is at least the largest
\* dark-channel value of the selected pixels.
C5_LightAboveSelectedDark ==
    AfterLight =>
        \A c \in 1..3 : \A q \in Selected : FLe(dark.px[q], A[c])

C5_Witness ==
    /\ pc = "l79"
    /\ window_size = 3
    /\ \E q \in Selected : \E c \in 1..3 : FLt(dark.px[q], A[c])
    /\ \E q \in Selected : \E c \in 1..3 : dark.px[q] = A[c]

-----------------------------------------------------------------------------
(* recover_image on a synthetic hazy image I = J*t + A*(1 - t) *)

ShadeLevels == { Norm(k, MaxShade) : k \in 0..MaxShade }

TransmissionLevels == { Tenth } \cup (ShadeLevels \ { Zero })

ShadeColours == ShadeLevels \X ShadeLevels \X ShadeLevels

\* the haze imaging model, with the same t for the three channels of a pixel
HazeModel(scene, al, t) ==
    Image(scene.h, scene.w,
          [p \in 1..NPixels(scene) |->
               [c \in 1..3 |->
                    FAdd(FMul(scene.px[p][c], t.px[p]),
                         FMul(al[c], FSub(One, t.px[p])))]])

\* two-pixel scenes: the second pixel is the first with its channels reversed
InitRecover ==
    /\ tieOrder = "stable" /\ erodeNaN = "propagate"   \* neither is consulted
    /\ J \in { Image(1, 2, <<col, <<col[3], col[2], col[1]>> >>) :
                   col \in ShadeColours }
    /\ A \in ShadeColours
    /\ transmission \in { Image(1, 2, <<t1, t2>>) :
                              t1 \in TransmissionLevels, t2 \in TransmissionLevels }
    /\ img_float = HazeModel(J, A, transmission)
    /\ window_size = default_window_size
    /\ pc = "l80"
    /\ foggy_dir = <<>> /\ image_files = <<>> /\ i = 0 /\ skipped = <<>>
    /\ entropy_before = <<>> /\ entropy_after = <<>>
    /\ cii_before = <<>> /\ cii_after = <<>>
    /\ output_dir = <<>>
    /\ dark = NoImage /\ indices = <<>>
    /\ dcp_result = NoImage /\ final_uint8 = NoImage
    /\ img = NoImage
    /\ gamma = NaN /\ avg = NaN /\ gamma_used = NaN /\ corrected = NoImage

NextRecover == RecoverImage

SpecRecover == InitRecover /\ [][NextRecover]_vars

FAbs(x) == <<Abs(x[1]), x[2]>>

Tolerance == <<1, 100000>>

\* C7: recover_image inverts the haze model: from I = J*t + A*(1 - t) it
\* returns J within 1e-5, with one t for the three channels of a pixel.
C7_RecoverInvertsHaze ==
    pc = "l82" =>
        /\ dcp_result.h = J.h /\ dcp_result.w = J.w
        /\ \A p \in 1..NPixels(J) : \A c \in 1..3 :
               FLe(FAbs(FSub(dcp_result.px[p][c], J.px[p][c])), Tolerance)

C7_Witness ==
    /\ pc = "l82"
    /\ transmission.px[1] # transmission.px[2]
    /\ FLt(transmission.px[1], One) /\ FLt(transmission.px[2], One)
    /\ \A p \in 1..2 : \E c \in 1..3 : img_float.px[p][c] # J.px[p][c]
    /\ \E c \in 1..3 : A[c] = Zero

-----------------------------------------------------------------------------
(* adaptive_gamma_correction on its own *)

GammaValues == { (255 * k) \div MaxLevel : k \in 0..MaxLevel }

GammaImages ==
    { Image(1, 1, <<col>>) : col \in GammaValues \X GammaValues \X GammaValues }
    \cup { Image(1, 2, << <<u, u, u>>, <<v, v, v>> >>) :
               u \in GammaValues, v \in GammaValues }

ExplicitGammas == { Zero, <<4, 5>>, One, <<6, 5>>, <<2, 1>> }

InitGamma ==
    /\ tieOrder = "stable" /\ erodeNaN = "propagate"   \* neither is consulted
    /\ img \in GammaImages
    /\ gamma \in { PyNone } \cup ExplicitGammas
    /\ pc = "l47"
    /\ avg = NaN /\ gamma_used = NaN /\ corrected = NoImage
    /\ foggy_dir = <<>> /\ image_files = <<>> /\ i = 0 /\ skipped = <<>>
    /\ entropy_before = <<>> /\ entropy_after = <<>>
    /\ cii_before = <<>> /\ cii_after = <<>>
    /\ output_dir = <<>>
    /\ img_float = NoImage /\ window_size = default_window_size
    /\ dark = NoImage /\ indices = <<>> /\ A = <<>>
    /\ transmission = NoImage /\ dcp_result = NoImage /\ final_uint8 = NoImage
    /\ J = NoImage

AdaptiveGammaCorrection ==
    /\ pc = "l47"
    /\ LET r == adaptive_gamma_correction(img, gamma)
       IN  /\ avg' = r.avg
           /\ gamma_used' = r.gamma
           /\ corrected' = r.out
    /\ pc' = "l53"
    /\ UNCHANGED <<img, gamma, img_float, window_size, dark, indices, A,
                   transmission, dcp_result, final_uint8, J>>
    /\ UnchangedBuild /\ UnchangedBatch

NextGamma == AdaptiveGammaCorrection

SpecGamma == InitGamma /\ [][NextGamma]_vars

\* the mean normalized intensity of the argument, from its uint8 values
MeanIntensity ==
    LET n == 3 * NPixels(img)
        total == FSum([k \in 1..n |->
                          <<img.px[((k - 1) \div 3) + 1][((k - 1) % 3) + 1], 1>>])
    IN  FDiv(total, <<255 * n, 1>>)

\* C6: without an explicit gamma the exponent is 1.0 exactly when
\* 0.4 < mean < 0.6, 0.8 exactly when mean > 0.6 and 1.2 exactly when
\* mean <= 0.4; an explicit gamma is used unchanged.
C6_GammaBands ==
    pc = "l53" =>
        IF gamma = PyNone
        THEN /\ (gamma_used = One) <=>
                    (FLt(<<2, 5>>, MeanIntensity) /\ FLt(MeanIntensity, <<3, 5>>))
             /\ (gamma_used = <<4, 5>>) <=> FLt(<<3, 5>>, MeanIntensity)
             /\ (gamma_used = <<6, 5>>) <=> FLe(MeanIntensity, <<2, 5>>)
        ELSE gamma_used = gamma

-----------------------------------------------------------------------------
(* The batch script, lines 59-147 *)

\* cv2.imread of a file that is no image
None == NoImage

\* cv2.cvtColor with COLOR_BGR2RGB and COLOR_RGB2BGR: the channels reversed
SwapRB(im) ==
    IF IsLib(im) THEN Lib("cvtColor(RGB2BGR)", <<im>>)
    ELSE Image(im.h, im.w,
               [p \in 1..NPixels(im) |->
                    <<im.px[p][3], im.px[p][2], im.px[p][1]>>])

\* the value astype(np.uint8) gives NaN: whatever the build's cast gives
NaNCast == -1

\* (x * 255).astype(np.uint8) for x in [0, 1]: truncation
ToUint8(im) ==
    IF IsLib(im) THEN Lib("(x * 255).astype(uint8)", <<im>>)
    ELSE Image(im.h, im.w,
               [p \in 1..NPixels(im) |->
                    [c \in 1..3 |->
                         IF IsNaN(im.px[p][c]) THEN NaNCast
                         ELSE FTrunc(FMul(im.px[p][c], <<255, 1>>))]])

\* lines 74-78: up to the atmospheric light
LightOf(im) ==
    LET imf == img_as_float(SwapRB(im))
        dk == dark_channel(imf, default_window_size)
        idx == BrightestIndices(dk)
    IN  [dark |-> dk, indices |-> idx, A |-> MaxOverIndices(imf, idx)]

\* a slip: the enhanced image compared with the original on line 96 too
cii_b_of_Enhanced(gray_original, gray_enhanced) ==
    contrast_improvement_index(gray_original, gray_enhanced)

\* line 96
cii_b_of(gray_original, gray_enhanced) ==
    contrast_improvement_index(gray_original, gray_original)

\* lines 79-97, given the atmospheric light
StagesAfterLight(im, light) ==
    LET img_rgb == SwapRB(im)
        imf == img_as_float(img_rgb)
        t == estimate_transmission(imf, light.A, omega, default_window_size)
        dcp == recover_image(imf, light.A, t)
        dcp_uint8 == ToUint8(dcp)
        clahe_img == apply_clahe_color(dcp_uint8)
        median_filtered == Lib("medianBlur(3)", <<clahe_img>>)
        bilateral_filtered == Lib("bilateralFilter(9, 75, 75)", <<median_filtered>>)
        final_img == adaptive_gamma_correction(bilateral_filtered, PyNone).out
        final == ToUint8(final_img)
        gray_original == rgb2gray(img_rgb)
        gray_enhanced == rgb2gray(final)
    IN  [img_float |-> imf, dark |-> light.dark, indices |-> light.indices,
         A |-> light.A, transmission |-> t, dcp_result |-> dcp,
         final_uint8 |-> final,
         entropy_b |-> shannon_entropy(img_rgb),
         entropy_a |-> shannon_entropy(final),
         cii_b |-> cii_b_of(gray_original, gray_enhanced),
         cii_a |-> contrast_improvement_index(gray_original, gray_enhanced)]

\* lines 74-97 for one decoded image
ProcessOne(im) == StagesAfterLight(im, LightOf(im))

\* the files of the batch: one that is no image and two 1x2 images (B, G, R)
FlatFile == Image(1, 2, << <<0, 153, 102>>, <<0, 153, 102>> >>)

RampFile == Image(1, 2, << <<0, 0, 0>>, <<255, 255, 255>> >>)

FileContents == { None, FlatFile, RampFile }

\* os.listdir: the names, in an order the file system chooses
ListDir(dir) ==
    LET n == Len(dir)
    IN  { [k \in 1..n |-> k], [k \in 1..n |-> n + 1 - k],
          [k \in 1..n |-> (k % n) + 1] }

Sorted(names) == SortSeq(names, LAMBDA a, b : a < b)

\* a slip: the listing used as it comes
ImageFiles_Unsorted(listing) == SubSeq(listing, 1, Min(5, Len(listing)))

\* line 66: sorted(os.listdir(foggy_dir))[:5]
ImageFiles(listing) == SubSeq(Sorted(listing), 1, Min(5, Len(listing)))

Init ==
    /\ InitBuild
    /\ foggy_dir \in UNION { [1..n -> FileContents] : n \in 0..MaxFiles }
    /\ pc = "l59"
    /\ image_files = <<>> /\ i = 0 /\ skipped = <<>>
    /\ entropy_before = <<>> /\ entropy_after = <<>>
    /\ cii_before = <<>> /\ cii_after = <<>>
    /\ output_dir = <<>>
    /\ img = NoImage /\ img_float = NoImage
    /\ window_size = default_window_size
    /\ dark = NoImage /\ indices = <<>> /\ A = <<>>
    /\ transmission = NoImage /\ dcp_result = NoImage /\ final_uint8 = NoImage
    /\ gamma = NaN /\ avg = NaN /\ gamma_used = NaN /\ corrected = NoImage
    /\ J = NoImage

UnchangedImageVars ==
    UNCHANGED <<img_float, dark, indices, A, transmission, dcp_result,
                final_uint8>>

UnchangedOthers ==
    UNCHANGED <<tieOrder, erodeNaN, foggy_dir, window_size, gamma, avg,
                gamma_used, corrected, J>>

\* lines 59-66
Start ==
    /\ pc = "l59"
    /\ \E listing \in ListDir(foggy_dir) : image_files' = ImageFiles(listing)
    /\ entropy_before' = <<>> /\ entropy_after' = <<>>
    /\ cii_before' = <<>> /\ cii_after' = <<>>
    /\ i' = 0
    /\ pc' = "l67"
    /\ UNCHANGED <<skipped, output_dir, img>>
    /\ UnchangedImageVars /\ UnchangedOthers

\* lines 67-72: an iteration on a file imread cannot decode
SkipImage ==
    /\ pc = "l67"
    /\ i < Len(image_files)
    /\ LET filename == image_files[i + 1]
       IN  /\ foggy_dir[filename] = None
           /\ img' = None
           /\ skipped' = Append(skipped, filename)
    /\ i' = i + 1
    /\ UNCHANGED <<pc, image_files, entropy_before, entropy_after, cii_before,
                   cii_after, output_dir>>
    /\ UnchangedImageVars /\ UnchangedOthers

\* the effect of lines 74-105 with r the values computed for the image
Record(filename, r) ==
    /\ img_float' = r.img_float
    /\ dark' = r.dark
    /\ indices' = r.indices
    /\ A' = r.A
    /\ transmission' = r.transmission
    /\ dcp_result' = r.dcp_result
    /\ final_uint8' = r.final_uint8
    /\ entropy_before' = Append(entropy_before, r.entropy_b)
    /\ entropy_after' = Append(entropy_after, r.entropy_a)
    /\ cii_before' = Append(cii_before, r.cii_b)
    /\ cii_after' = Append(cii_after, r.cii_a)
    /\ output_dir' = [f \in (DOMAIN output_dir) \cup {filename} |->
                          IF f = filename THEN SwapRB(r.final_uint8)
                          ELSE output_dir[f]]
    /\ i' = i + 1
    /\ UNCHANGED <<pc, image_files, skipped>>
    /\ UnchangedOthers

\* a slip: the atmospheric light estimated once and kept for the later images
ProcessImage_StaleLight ==
    /\ pc = "l67"
    /\ i < Len(image_files)
    /\ LET filename == image_files[i + 1]
       IN  /\ foggy_dir[filename] # None
           /\ img' = foggy_dir[filename]
           /\ Record(filename,
                     StagesAfterLight(foggy_dir[filename],
                         IF A = <<>> THEN LightOf(foggy_dir[filename])
                         ELSE [dark |-> dark, indices |-> indices, A |-> A]))

\* lines 67-125: an iteration on a decoded image
ProcessImage ==
    /\ pc = "l67"
    /\ i < Len(image_files)
    /\ LET filename == image_files[i + 1]
       IN  /\ foggy_dir[filename] # None
           /\ img' = foggy_dir[filename]
           /\ Record(filename, ProcessOne(foggy_dir[filename]))

\* lines 127-147: the loop is over; the two summary plots read the sequences
SummaryPlots ==
    /\ pc = "l67"
    /\ i = Len(image_files)
    /\ pc' = "done"
    /\ UNCHANGED <<image_files, i, skipped, entropy_before, entropy_after,
                   cii_before, cii_after, output_dir, img>>
    /\ UnchangedImageVars /\ UnchangedOthers

Next ==
    \/ Start
    \/ SkipImage
    \/ ProcessImage
    \/ SummaryPlots

Spec == Init /\ [][Next]_vars

-----------------------------------------------------------------------------
(* Properties of the batch script (Spec) *)

Decodable(f) == foggy_dir[f] # None

\* the names of the directory in sorted order
SortedNames == [k \in 1..Len(foggy_dir) |-> k]

\* the files the loop has gone through and decoded, in the order of the loop
ProcessedNames == SelectSeq(SubSeq(image_files, 1, i), Decodable)

GrayOf(f) == rgb2gray(SwapRB(foggy_dir[f]))

MetricsFollow(names) ==
    /\ entropy_before = [k \in 1..Len(names) |-> ProcessOne(foggy_dir[names[k]]).entropy_b]
    /\ entropy_after = [k \in 1..Len(names) |-> ProcessOne(foggy_dir[names[k]]).entropy_a]
    /\ cii_before = [k \in 1..Len(names) |-> ProcessOne(foggy_dir[names[k]]).cii_b]
    /\ cii_after = [k \in 1..Len(names) |-> ProcessOne(foggy_dir[names[k]]).cii_a]

\* C2 as stated: of N files, whatever N, of which exactly one cannot be
\* decoded, the loop records one skip, for that file, and appends N - 1
\* entries to each metric sequence, in the order of the sorted file list.
C2_OneSkipOfN ==
    (/\ pc = "done"
     /\ Cardinality({ f \in 1..Len(foggy_dir) : ~Decodable(f) }) = 1) =>
        /\ Len(skipped) = 1 /\ ~Decodable(skipped[1])
        /\ Len(entropy_before) = Len(foggy_dir) - 1
        /\ Len(entropy_after) = Len(foggy_dir) - 1
        /\ Len(cii_before) = Len(foggy_dir) - 1
        /\ Len(cii_after) = Len(foggy_dir) - 1
        /\ MetricsFollow(SelectSeq(SortedNames, Decodable))

\* the first five names of the sorted list, or all when there are fewer
FirstFive == SubSeq(SortedNames, 1, Min(5, Len(foggy_dir)))

\* C2 amended: when exactly one of the first five files of the sorted list
\* (of all the files, when there are at most five) cannot be decoded, the
\* loop records one skip, for that file, and appends one entry fewer than
\* the files it went through to each metric sequence, in the order of the
\* sorted list.
C2_OneSkipOfFirstFive ==
    (/\ pc = "done"
     /\ Cardinality({ k \in 1..Len(FirstFive) : ~Decodable(FirstFive[k]) }) = 1) =>
        /\ Len(skipped) = 1 /\ ~Decodable(skipped[1])
        /\ \E k \in 1..Len(FirstFive) : skipped[1] = FirstFive[k]
        /\ Len(entropy_before) = Len(FirstFive) - 1
        /\ Len(entropy_after) = Len(FirstFive) - 1
        /\ Len(cii_before) = Len(FirstFive) - 1
        /\ Len(cii_after) = Len(FirstFive) - 1
        /\ MetricsFollow(SelectSeq(FirstFive, Decodable))

C2_Witness ==
    /\ pc = "done"
    /\ Len(foggy_dir) > 5
    /\ skipped = <<2>>
    /\ Len(entropy_before) = 4
    /\ entropy_before[1] # entropy_before[2]

\* C8: a reference of standard deviation 0 gives +infinity as a normal
\* return value, no division by zero performed, for the image compared with
\* itself and with its enhancement; the image counts as processed, its
\* metrics appended and its result written.
C8_FlatReferenceGivesInf ==
    LET names == ProcessedNames
    IN  /\ Len(cii_before) = Len(names)
        /\ Len(cii_after) = Len(names)
        /\ Len(entropy_before) = Len(names)
        /\ Len(entropy_after) = Len(names)
        /\ \A k \in 1..Len(names) :
               NpStd(GrayOf(names[k])) = StdZero =>
                   /\ cii_before[k] = PyInf
                   /\ cii_after[k] = PyInf
                   /\ names[k] \in DOMAIN output_dir

C8_Witness ==
    /\ pc = "done"
    /\ Len(ProcessedNames) = 2
    /\ NpStd(GrayOf(ProcessedNames[1])) = StdZero
    /\ cii_after[1] = PyInf
    /\ cii_before[2] = FloatOne

\* C9: an image of nonzero grayscale standard deviation compared with itself
\* gives 1.0, so every recorded 'CII Before' is 1.0 or +infinity.
C9_CiiBeforeIsOneOrInf ==
    LET names == ProcessedNames
    IN  \A k \in 1..Len(cii_before) :
            /\ cii_before[k] \in { FloatOne, PyInf }
            /\ k <= Len(names) =>
                   (NpStd(GrayOf(names[k])) # StdZero
                        => cii_before[k] = FloatOne)

C9_Witness ==
    /\ pc = "done"
    /\ \E k \in 1..Len(cii_before) :
           /\ NpStd(GrayOf(ProcessedNames[k])) # StdZero
           /\ cii_before[k] = FloatOne
    /\ \E k \in 1..Len(cii_before) : cii_before[k] = PyInf

RecordedAt(name, k, r) ==
    /\ entropy_before[k] = r.entropy_b
    /\ entropy_after[k] = r.entropy_a
    /\ cii_before[k] = r.cii_b
    /\ cii_after[k] = r.cii_a
    /\ output_dir[name] = SwapRB(r.final_uint8)

\* C10: what is recorded for an image (the enhanced image written and the
\* four metrics) is a function of that image alone, whatever files come
\* before or after it: two files holding the same image get the same
\* records, every record of a finished batch is the one the image gets on
\* its own, and the artifacts and records an iteration leaves are those of
\* its own image.
C10_ResultsDependOnImageOnly ==
    LET names == ProcessedNames
        n == Len(names)
    IN  /\ Len(entropy_before) = n
        /\ Len(entropy_after) = n
        /\ Len(cii_before) = n
        /\ Len(cii_after) = n
        /\ \A j \in 1..n : \A k \in (j + 1)..n :
               foggy_dir[names[j]] = foggy_dir[names[k]] =>
                   /\ entropy_before[j] = entropy_before[k]
                   /\ entropy_after[j] = entropy_after[k]
                   /\ cii_before[j] = cii_before[k]
                   /\ cii_after[j] = cii_after[k]
                   /\ output_dir[names[j]] = output_dir[names[k]]
        /\ pc = "done" =>
               \A k \in 1..n :
                   RecordedAt(names[k], k, ProcessOne(foggy_dir[names[k]]))
        /\ (i > 0 /\ img # None) =>
               LET r == ProcessOne(img)
               IN  /\ img = foggy_dir[image_files[i]]
                   /\ dark = r.dark /\ A = r.A
                   /\ transmission = r.transmission
                   /\ dcp_result = r.dcp_result
                   /\ final_uint8 = r.final_uint8
                   /\ RecordedAt(image_files[i], n, r)

C10_Witness ==
    /\ pc = "done"
    /\ Len(skipped) = 1
    /\ Len(ProcessedNames) = 3
    /\ foggy_dir[ProcessedNames[1]] = foggy_dir[ProcessedNames[3]]
    /\ foggy_dir[ProcessedNames[1]] # foggy_dir[ProcessedNames[2]]
    /\ cii_after[1] = cii_after[3]
    /\ output_dir[ProcessedNames[1]] = output_dir[ProcessedNames[3]]

=============================================================================
